---- MODULE Spec2Model ----
(***************************************************************************)
(* Outbound dispatch engine of the WhatsApp bot (src/server/bot.js) and    *)
(* the dashboard-side LiveDB.createLog that feeds it                       *)
(* (src/unnamed/part_001).  Times are in milliseconds, as in the source.   *)
(*                                                                         *)
(* The bot is one Node.js process: every action below is one turn of its   *)
(* event loop (a request handler, a timer callback or the continuation of  *)
(* an async function after an await), run to its next suspension point.    *)
(* Time advances only between turns, to the next pending timer deadline.   *)
(***************************************************************************)
EXTENDS Integers, Sequences, FiniteSets, TLC

\* ---- bounds of the model ----
MaxLogs == 1
MaxJobs == 3
MaxImages == 1
MaxTime == 61000
MaxItems == 2
MaxAlbums == 1
MaxHours == 17
Epoch == 1000
MaxRetries == 5
MaxBatch == 9

\* ---- program constants ----
WatchdogInterval == 60000
StuckThreshold == 120000
ImageTimeout == 20000
ImageDelay == 2000
CooldownDelay == 1000
ProbeTimeout == 5000
CreateLogRetries == 1
SupabaseRetries == 5
RetryLogRetries == 3
CleanupInterval == 3600000
Retention == 54000000

VARIABLES
    now,                \* Date.now()
    exited,             \* process.exit() was called
    fault,              \* why, as the last console.error before the exit says
    isReady,            \* bot.js:297
    currentQR,          \* bot.js:298
    jobQueue,           \* bot.js:301
    isProcessingQueue,  \* bot.js:302
    lastJobStartTime,   \* bot.js:303
    active,             \* the suspended invocations of processJob
    timers,             \* deadlines of the pending setTimeout(processQueue, 1000)
    watchdogAt,         \* deadline of the next watchdog tick
    probeDue,           \* deadline of the pending getState() race, 0 if none
    nEnq,               \* number of jobs pushed so far (names the jobs)
    jobLog,             \* history: the sends of the job dequeued last and how they ended
    started,            \* history: the jobs in the order they were dequeued
    finished,           \* history: the jobs whose processJob has ended, in that order
    delivered,          \* history: the records whose job was sent in full
    accepted,           \* history: the records a job was queued for
    served,             \* the answer given in the turn just taken, if it was a
                        \* request to POST /send-update, and for an accepted job
                        \* what had happened when res.json was called
    logs,               \* the state of the dashboard's call for each record
    status,             \* activity_logs.status of each record
    rows,               \* the other columns of each record of activity_logs
    cleanupAt,          \* deadline of the next image cleanup pass
    call                \* the state of a call of fetchWithRetry

vars == <<now, exited, fault, isReady, currentQR, jobQueue, isProcessingQueue,
          lastJobStartTime, active, timers, watchdogAt, probeDue, nEnq,
          jobLog, started, finished, delivered, accepted, served, logs, status,
          rows, cleanupAt, call>>

botVars == <<isReady, currentQR, jobQueue, isProcessingQueue,
             lastJobStartTime, active, timers, watchdogAt, probeDue, nEnq,
             jobLog, started, finished, delivered, accepted, served, cleanupAt>>

\* ---- values ----
LogIds == 1..MaxLogs
\* a url is a data: url, here of a video, or a remote url (a data: url of
\* an image differs in the mime type only, which processJob passes on)
ItemKinds == {"vid", "url"}
Messages == {"", "hi"}
NoQR == "null"

RECURSIVE SeqsUpTo(_, _)
SeqsUpTo(S, n) ==
    IF n = 0 THEN {<<>>}
    ELSE LET shorter == SeqsUpTo(S, n - 1)
         IN  shorter \cup {Append(s, x) : s \in {t \in shorter : Len(t) = n - 1}, x \in S}

Bodies == [groupId : {"", "g1"},
           message : Messages,
           imageUrls : SeqsUpTo(ItemKinds, MaxImages)]

Categories == {"Update", "Video Message"}

LogDatas == [category : Categories,
             aiGeneratedMessage : Messages,
             imageUrls : SeqsUpTo(ItemKinds, MaxImages),
             hasGroup : BOOLEAN]

\* an entry of jobLog: the send of item i of job j (item 0 is the text) with
\* its options, or how that send ended
Ev(e, j, i, m) == [ev |-> e, job |-> j, item |-> i, mode |-> m]

RECURSIVE Min(_)
Min(S) == LET x == CHOOSE y \in S : TRUE
          IN  IF S = {x} THEN x
              ELSE LET m == Min(S \ {x}) IN IF x < m THEN x ELSE m

RECURSIVE SeqToSet(_)
SeqToSet(s) == IF s = <<>> THEN {} ELSE {Head(s)} \cup SeqToSet(Tail(s))

\* String.prototype.trim: of the strings of the model only " " has white
\* space at its ends
trim(s) == IF s = " " THEN "" ELSE s

\* ---- processJob (bot.js:483-536) ----
hasImages(job) == Len(job.imageUrls) > 0
hasText(job) == job.message # "" /\ trim(job.message) # ""

\* options of client.sendMessage(groupId, media): none are passed
SendMode(job, i) == "native"

\* the invocation after client.sendMessage(groupId, media) was called and
\* the race with the 20s timer is awaited
AwaitImage(job, i, ev) ==
    [inv |-> [job |-> job, i |-> i, pc |-> "sendImage", at |-> now,
              due |-> now + ImageTimeout],
     jobLog |-> Append(ev, Ev("send", job.id, i, SendMode(job, i)))]

\* one iteration of the image loop, up to its first await
StartItem(job, i, ev) ==
    IF job.imageUrls[i] = "vid"
    THEN AwaitImage(job, i, ev)
    ELSE [inv |-> [job |-> job, i |-> i, pc |-> "fromUrl", at |-> now, due |-> 0],
          jobLog |-> ev]

\* step 2 of processJob: the text, or the return
StartText(job, ev) ==
    IF hasText(job)
    THEN [inv |-> [job |-> job, i |-> 0, pc |-> "sendText", at |-> now, due |-> 0],
          jobLog |-> Append(ev, Ev("send", job.id, 0, "text"))]
    ELSE [inv |-> [job |-> job, i |-> 0, pc |-> "return", at |-> now, due |-> 0],
          jobLog |-> ev]

\* the call processJob(job), up to its first await
processJobFromLast(job, ev) ==
    IF hasImages(job) THEN StartItem(job, Len(job.imageUrls), ev)
    ELSE StartText(job, ev)

processJob(job, ev) ==
    IF hasImages(job) THEN StartItem(job, 1, ev) ELSE StartText(job, ev)

\* ---- processQueue (bot.js:461-481) ----
\* D is the dispatcher's state
DState == [jobQueue |-> jobQueue, isProcessingQueue |-> isProcessingQueue,
           lastJobStartTime |-> lastJobStartTime, active |-> active,
           timers |-> timers, jobLog |-> jobLog, started |-> started,
           finished |-> finished, delivered |-> delivered,
           accepted |-> accepted]

\* the guard of processQueue on the flag (bot.js:462)
BusyNever(D) == FALSE

Busy(D) == D.isProcessingQueue

\* jobQueue.shift() (bot.js:467)
ShiftNewest(q) == [job |-> q[Len(q)], rest |-> SubSeq(q, 1, Len(q) - 1)]

Shift(q) == [job |-> Head(q), rest |-> Tail(q)]

\* history: every image and the text of the job were sent with success
Delivered(job, log) ==
    /\ \A i \in 1..Len(job.imageUrls) : Ev("ok", job.id, i, "-") \in SeqToSet(log)
    /\ hasText(job) => Ev("ok", job.id, 0, "-") \in SeqToSet(log)

\* the finally block, run when processJob has returned or thrown
FinallyKeepsStart(D, job) ==
    [D EXCEPT !.isProcessingQueue = FALSE,
              !.timers = Append(@, now + CooldownDelay),
              !.finished = Append(@, job.id),
              !.delivered = IF job.log # 0 /\ Delivered(job, D.jobLog)
                            THEN @ \cup {job.log} ELSE @]

FinallyNoWakeup(D, job) ==
    [D EXCEPT !.isProcessingQueue = FALSE,
              !.lastJobStartTime = 0,
              !.finished = Append(@, job.id),
              !.delivered = IF job.log # 0 /\ Delivered(job, D.jobLog)
                            THEN @ \cup {job.log} ELSE @]

Finally(D, job) ==
    [D EXCEPT !.isProcessingQueue = FALSE,
              !.lastJobStartTime = 0,
              !.timers = Append(@, now + CooldownDelay),
              !.finished = Append(@, job.id),
              !.delivered = IF job.log # 0 /\ Delivered(job, D.jobLog)
                            THEN @ \cup {job.log} ELSE @]

processQueueNoStamp(D) ==
    IF Busy(D) \/ Len(D.jobQueue) = 0 THEN D
    ELSE LET job == Shift(D.jobQueue).job
             r == processJob(job, <<>>)
             D1 == [D EXCEPT !.isProcessingQueue = TRUE,
                             !.jobQueue = Shift(@).rest,
                             !.started = Append(@, job.id),
                             !.jobLog = r.jobLog]
         IN  IF r.inv.pc = "return"
             THEN Finally(D1, job)
             ELSE [D1 EXCEPT !.active = @ \cup {r.inv}]

processQueue(D) ==
    IF Busy(D) \/ Len(D.jobQueue) = 0 THEN D
    ELSE LET job == Shift(D.jobQueue).job
             r == processJob(job, <<>>)
             D1 == [D EXCEPT !.isProcessingQueue = TRUE,
                             !.lastJobStartTime = now,
                             !.jobQueue = Shift(@).rest,
                             !.started = Append(@, job.id),
                             !.jobLog = r.jobLog]
         IN  IF r.inv.pc = "return"
             THEN Finally(D1, job)
             ELSE [D1 EXCEPT !.active = @ \cup {r.inv}]

\* the continuation of processJob after the pause of invocation inv: the
\* next item, or the text, or the end of the job
AfterItem(D, inv) ==
    LET job == inv.job
        r == IF inv.i < Len(job.imageUrls)
             THEN StartItem(job, inv.i + 1, D.jobLog)
             ELSE StartText(job, D.jobLog)
        D1 == [D EXCEPT !.active = @ \ {inv}, !.jobLog = r.jobLog]
    IN  IF r.inv.pc = "return"
        THEN Finally(D1, job)
        ELSE [D1 EXCEPT !.active = @ \cup {r.inv}]

\* the 2s pause that ends every iteration of the image loop
ToDelay(D, inv, outcome) ==
    [D EXCEPT !.active = (@ \ {inv}) \cup
                  {[inv EXCEPT !.pc = "delay", !.at = now, !.due = now + ImageDelay]},
              !.jobLog = Append(@, Ev(outcome, inv.job.id, inv.i, "-"))]

SetD(D) ==
    /\ jobQueue' = D.jobQueue
    /\ isProcessingQueue' = D.isProcessingQueue
    /\ lastJobStartTime' = D.lastJobStartTime
    /\ active' = D.active
    /\ timers' = D.timers
    /\ jobLog' = D.jobLog
    /\ started' = D.started
    /\ finished' = D.finished
    /\ delivered' = D.delivered
    /\ accepted' = D.accepted

\* ---- POST /send-update (bot.js:590-616) ----
Blank(message) == message = "" \/ trim(message) = ""

\* the check of the session (bot.js:591)
NeverRejects(ready) == FALSE

NotConnected(ready) == ~ready

\* jobQueue.push(job) (bot.js:608)
PushReplace(q, job) == <<job>>

Push(q, job) == Append(q, job)

\* history: the sends of job j issued so far
SendsOf(log, j) == {k \in 1..Len(log) : log[k].ev = "send" /\ log[k].job = j}

\* the handler: the new dispatcher state and the answer; with the answer to
\* an accepted job (history) the length of the queue before the push, the
\* length logged after it, and the sends of the job issued before res.json
SendUpdate(D, body, logId) ==
    IF NotConnected(isReady)
    THEN [D |-> D, pushed |-> 0,
          answer |-> [code |-> 503, body |-> [error |-> "WhatsApp not connected"]]]
    ELSE IF body.groupId = ""
    THEN [D |-> D, pushed |-> 0,
          answer |-> [code |-> 400, body |-> [error |-> "Missing groupId"]]]
    ELSE IF Blank(body.message) /\ Len(body.imageUrls) = 0
    THEN [D |-> D, pushed |-> 0,
          answer |-> [code |-> 400,
                      body |-> [error |-> "At least a message or an image is required"]]]
    ELSE LET job == [id |-> nEnq + 1, log |-> logId, groupId |-> body.groupId,
                     message |-> body.message, imageUrls |-> body.imageUrls]
             D1 == [D EXCEPT !.jobQueue = Push(@, job),
                             !.accepted = IF logId # 0 THEN @ \cup {logId} ELSE @]
             D2 == processQueue(D1)
         IN  [D |-> D2, pushed |-> 1,
              answer |-> [code |-> 200,
                          body |-> [success |-> TRUE, status |-> "queued"],
                          job |-> job.id,
                          before |-> Len(D.jobQueue),
                          logged |-> Len(D1.jobQueue),
                          sends |-> Cardinality(SendsOf(D2.jobLog, job.id))]]

\* ---- the state after construction ----
IdleLog == [pc |-> "idle",
            data |-> [category |-> "", aiGeneratedMessage |-> "",
                      imageUrls |-> <<>>, hasGroup |-> FALSE],
            retries |-> 0, final |-> "PENDING", writes |-> 0]

\* no record
NoRow == [created_at |-> 0, image_urls |-> <<>>, notes |-> "",
          ai_generated_message |-> ""]

NoFault == [kind |-> "none", duration |-> 0]

NoAnswer == [code |-> 0, body |-> [none |-> TRUE]]

\* no call of fetchWithRetry under way
NoCall == [pc |-> "none", budget |-> 0, retries |-> 0, backoff |-> 0,
           calls |-> 0, last |-> 0]

Init ==
    /\ now = Epoch
    /\ exited = FALSE
    /\ fault = NoFault
    /\ isReady = FALSE
    /\ currentQR = NoQR
    /\ jobQueue = <<>>
    /\ isProcessingQueue = FALSE
    /\ lastJobStartTime = 0
    /\ active = {}
    /\ timers = <<>>
    /\ watchdogAt = Epoch + WatchdogInterval
    /\ probeDue = 0
    /\ nEnq = 0
    /\ jobLog = <<>>
    /\ started = <<>>
    /\ finished = <<>>
    /\ delivered = {}
    /\ accepted = {}
    /\ served = NoAnswer
    /\ logs = [l \in LogIds |-> IdleLog]
    /\ status = [l \in LogIds |-> "NONE"]
    /\ rows = [l \in LogIds |-> NoRow]
    /\ cleanupAt = Epoch + CleanupInterval
    /\ call = NoCall

\* ---- process.exit ----
\* the process is gone, and its memory with it; the records of the
\* database and the calls of the dashboard remain
Exit(kind, duration) ==
    /\ exited' = TRUE
    /\ fault' = [kind |-> kind, duration |-> duration]
    /\ isReady' = FALSE
    /\ currentQR' = NoQR
    /\ jobQueue' = <<>>
    /\ isProcessingQueue' = FALSE
    /\ lastJobStartTime' = 0
    /\ active' = {}
    /\ timers' = <<>>
    /\ watchdogAt' = 0
    /\ probeDue' = 0
    /\ nEnq' = 0
    /\ jobLog' = <<>>
    /\ started' = <<>>
    /\ finished' = <<>>
    /\ delivered' = {}
    /\ accepted' = {}
    /\ served' = NoAnswer
    /\ cleanupAt' = 0
    /\ UNCHANGED <<now, logs, status, rows, call>>

\* ---- session events of the client (bot.js:416-446) ----
OnQr ==
    /\ ~exited
    /\ currentQR' = "qr"
    /\ isReady' = FALSE
    /\ served' = NoAnswer
    /\ UNCHANGED <<now, exited, fault, jobQueue, isProcessingQueue,
                   lastJobStartTime, active, timers, watchdogAt, probeDue, nEnq,
                   jobLog, started, finished, delivered, accepted, logs, status, rows, cleanupAt, call>>

OnReady ==
    /\ ~exited
    /\ isReady' = TRUE
    /\ currentQR' = NoQR
    /\ served' = NoAnswer
    /\ UNCHANGED <<now, exited, fault, jobQueue, isProcessingQueue,
                   lastJobStartTime, active, timers, watchdogAt, probeDue, nEnq,
                   jobLog, started, finished, delivered, accepted, logs, status, rows, cleanupAt, call>>

OnAuthenticatedKeepsQR ==
    /\ ~exited
    /\ isReady' = TRUE
    /\ served' = NoAnswer
    /\ UNCHANGED <<now, exited, fault, currentQR, jobQueue, isProcessingQueue,
                   lastJobStartTime, active, timers, watchdogAt, probeDue, nEnq,
                   jobLog, started, finished, delivered, accepted, logs, status, rows, cleanupAt, call>>

OnAuthenticated ==
    /\ ~exited
    /\ isReady' = TRUE
    /\ currentQR' = NoQR
    /\ served' = NoAnswer
    /\ UNCHANGED <<now, exited, fault, jobQueue, isProcessingQueue,
                   lastJobStartTime, active, timers, watchdogAt, probeDue, nEnq,
                   jobLog, started, finished, delivered, accepted, logs, status, rows, cleanupAt, call>>

OnAuthFailure ==
    /\ ~exited
    /\ Exit("auth_failure", 0)

OnDisconnected ==
    /\ ~exited
    /\ Exit("disconnected", 0)

\* ---- the continuations of processJob ----
frame == <<now, exited, fault, isReady, currentQR, watchdogAt, probeDue, nEnq,
           logs, status, rows, cleanupAt, call>>

\* A call of the transport settles at once or hangs: Settles(inv) says that
\* the call awaited by inv can still be answered.
Settles(inv) == inv.at = now

\* MessageMedia.fromUrl(url) resolved: the send is issued (bot.js:502-512)
FromUrlOk ==
    /\ ~exited
    /\ \E inv \in active :
        /\ inv.pc = "fromUrl"
        /\ Settles(inv)
        /\ LET r == AwaitImage(inv.job, inv.i, jobLog)
           IN  SetD([DState EXCEPT !.active = (@ \ {inv}) \cup {r.inv},
                                   !.jobLog = r.jobLog])
    /\ served' = NoAnswer
    /\ UNCHANGED frame

\* MessageMedia.fromUrl(url) rejected: caught at bot.js:515
FromUrlFail ==
    /\ ~exited
    /\ \E inv \in active :
        /\ inv.pc = "fromUrl"
        /\ Settles(inv)
        /\ SetD(ToDelay(DState, inv, "nomedia"))
    /\ served' = NoAnswer
    /\ UNCHANGED frame

\* client.sendMessage(groupId, media) resolved before the timer
SendImageOk ==
    /\ ~exited
    /\ \E inv \in active :
        /\ inv.pc = "sendImage"
        /\ Settles(inv)
        /\ SetD(ToDelay(DState, inv, "ok"))
    /\ served' = NoAnswer
    /\ UNCHANGED frame

\* client.sendMessage(groupId, media) rejected before the timer
SendImageRej ==
    /\ ~exited
    /\ \E inv \in active :
        /\ inv.pc = "sendImage"
        /\ Settles(inv)
        /\ SetD(ToDelay(DState, inv, "rej"))
    /\ served' = NoAnswer
    /\ UNCHANGED frame

\* the 20s timer rejected first (bot.js:508-510)
SendImageTimeout ==
    /\ ~exited
    /\ \E inv \in active :
        /\ inv.pc = "sendImage"
        /\ inv.due <= now
        /\ SetD(ToDelay(DState, inv, "timeout"))
    /\ served' = NoAnswer
    /\ UNCHANGED frame

\* the 2s pause is over (bot.js:523)
DelayDone ==
    /\ ~exited
    /\ \E inv \in active :
        /\ inv.pc = "delay"
        /\ inv.due <= now
        /\ SetD(AfterItem(DState, inv))
    /\ served' = NoAnswer
    /\ UNCHANGED frame

\* the end of processJob after client.sendMessage(groupId, message) has
\* settled, and the finally block of processQueue
AfterText(D, inv, outcome) ==
    Finally([D EXCEPT !.active = @ \ {inv},
                      !.jobLog = Append(@, Ev(outcome, inv.job.id, 0, "-"))],
            inv.job)

\* client.sendMessage(groupId, message) resolved (bot.js:530-531)
SendTextOk ==
    /\ ~exited
    /\ \E inv \in active :
        /\ inv.pc = "sendText"
        /\ Settles(inv)
        /\ SetD(AfterText(DState, inv, "ok"))
    /\ served' = NoAnswer
    /\ UNCHANGED frame

\* client.sendMessage(groupId, message) rejected: caught at bot.js:532
SendTextRej ==
    /\ ~exited
    /\ \E inv \in active :
        /\ inv.pc = "sendText"
        /\ Settles(inv)
        /\ SetD(AfterText(DState, inv, "rej"))
    /\ served' = NoAnswer
    /\ UNCHANGED frame

\* setTimeout(processQueue, 1000) fires (bot.js:479)
CooldownFire ==
    /\ ~exited
    /\ timers # <<>>
    /\ Head(timers) <= now
    /\ SetD(processQueue([DState EXCEPT !.timers = Tail(@)]))
    /\ served' = NoAnswer
    /\ UNCHANGED frame

\* ---- the watchdog (bot.js:340-372) ----
IsStuckLate(processing, startTime) ==
    processing /\ startTime > 0
        /\ now - startTime > StuckThreshold + WatchdogInterval

IsStuck(processing, startTime) ==
    processing /\ startTime > 0 /\ now - startTime > StuckThreshold

WatchdogTick ==
    /\ ~exited
    /\ watchdogAt <= now
    /\ IF IsStuck(isProcessingQueue, lastJobStartTime)
       THEN Exit("stuck", now - lastJobStartTime)
       ELSE /\ watchdogAt' = watchdogAt + WatchdogInterval
            /\ probeDue' = IF isReady THEN now + ProbeTimeout ELSE probeDue
            /\ served' = NoAnswer
            /\ UNCHANGED <<now, exited, fault, isReady, currentQR, jobQueue,
                           isProcessingQueue, lastJobStartTime, active, timers,
                           nEnq, jobLog, started, finished, delivered, accepted, logs,
                           status, rows, cleanupAt, call>>

\* client.getState() resolved within 5s, before the timer
ProbeOk ==
    /\ ~exited
    /\ probeDue # 0
    /\ now < probeDue
    /\ probeDue' = 0
    /\ served' = NoAnswer
    /\ UNCHANGED <<now, exited, fault, isReady, currentQR, jobQueue,
                   isProcessingQueue, lastJobStartTime, active, timers,
                   watchdogAt, nEnq, jobLog, started, finished, delivered, accepted,
                   logs, status, rows, cleanupAt, call>>

\* client.getState() rejected (bot.js:367-370)
ProbeFail ==
    /\ ~exited
    /\ probeDue # 0
    /\ now < probeDue
    /\ Exit("probe_error", 0)

\* the 5s timer rejected first (bot.js:364)
ProbeTimedOutIgnored ==
    /\ ~exited
    /\ probeDue # 0
    /\ probeDue <= now
    /\ probeDue' = 0
    /\ isReady' = FALSE
    /\ served' = NoAnswer
    /\ UNCHANGED <<now, exited, fault, currentQR, jobQueue,
                   isProcessingQueue, lastJobStartTime, active, timers,
                   watchdogAt, nEnq, jobLog, started, finished, delivered, accepted,
                   logs, status, rows, cleanupAt, call>>

ProbeTimedOut ==
    /\ ~exited
    /\ probeDue # 0
    /\ probeDue <= now
    /\ Exit("probe_timeout", 0)

\* ---- time ----
Deadlines ==
    {watchdogAt, cleanupAt} \cup SeqToSet(timers)
        \cup {inv.due : inv \in {a \in active : a.pc \in {"sendImage", "delay"}}}
        \cup (IF probeDue # 0 THEN {probeDue} ELSE {})

\* The instants explored: an idle dispatcher is followed up to MaxTime, a
\* job in progress as long as the watchdog can let it run and one tick
\* more, and a pending wake-up of the dispatcher until it is due.
Horizon ==
    IF isProcessingQueue
    THEN lastJobStartTime + StuckThreshold + 2 * WatchdogInterval
    ELSE IF timers # <<>> THEN timers[Len(timers)]
    ELSE MaxTime

\* the event loop is idle until the next timer is due
Advance ==
    /\ ~exited
    /\ Min(Deadlines) > now
    /\ Min(Deadlines) <= Horizon
    /\ now' = Min(Deadlines)
    /\ served' = NoAnswer
    /\ UNCHANGED <<exited, fault, isReady, currentQR, jobQueue,
                   isProcessingQueue, lastJobStartTime, active, timers,
                   watchdogAt, probeDue, nEnq, jobLog, started, finished, delivered, accepted, logs, status, rows, cleanupAt, call>>

\* ---- a request to POST /send-update of any caller ----
PostSendUpdate ==
    \E body \in Bodies :
        /\ ~exited
        /\ nEnq < MaxJobs
        /\ LET r == SendUpdate(DState, body, 0)
           IN  /\ SetD(r.D)
               /\ nEnq' = nEnq + r.pushed
               /\ served' = r.answer
        /\ UNCHANGED <<now, exited, fault, isReady, currentQR, watchdogAt,
                       probeDue, logs, status, rows, cleanupAt, call>>

\* ---- LiveDB.createLog (part_001:203-305) ----
hasMessage(data) == data.aiGeneratedMessage # ""

\* the record inserted: a video is not stored, the notes say that it was
\* sent (part_001:211-234)
NewRow(data) ==
    [created_at |-> now,
     image_urls |-> IF data.category = "Video Message" THEN <<>> ELSE data.imageUrls,
     notes |-> IF data.category = "Video Message"
               THEN "n [Video Sent to Family via WhatsApp]" ELSE "n",
     ai_generated_message |-> data.aiGeneratedMessage]

\* the insert of the record with status PENDING and the read of the
\* resident's group, up to the call of fetchWithRetry (part_001:203-275)
CreateLogInsert ==
    \E l \in LogIds, data \in LogDatas :
        /\ logs[l].pc = "idle"
        /\ \A k \in LogIds : k < l => logs[k].pc # "idle"
        /\ logs' = [logs EXCEPT ![l] =
               IF data.hasGroup /\ (hasMessage(data) \/ Len(data.imageUrls) > 0)
               THEN [pc |-> "fetch", data |-> [data EXCEPT !.category = ""],
                     retries |-> CreateLogRetries, final |-> "PENDING",
                     writes |-> 0]
               ELSE IF data.hasGroup
                    THEN [pc |-> "update", data |-> IdleLog.data,
                          retries |-> SupabaseRetries, final |-> "SENT",
                          writes |-> 0]
                    ELSE [pc |-> "done", data |-> IdleLog.data, retries |-> 0,
                          final |-> "PENDING", writes |-> 0]]
        /\ status' = [status EXCEPT ![l] = "PENDING"]
        /\ rows' = [rows EXCEPT ![l] = NewRow(data)]
        /\ UNCHANGED <<now, exited, fault, botVars, call>>

\* fetchWithRetry (part_001:71-94); code 0 stands for a thrown network error
Retryable(code) == code = 408 \/ code = 429 \/ code >= 500

ResponseOk(code) == code >= 200 /\ code <= 299

\* the status write that follows, a request of the supabase client, whose
\* fetch is supabaseFetch (part_001:96-108)
ToUpdate(lg, final) ==
    [lg EXCEPT !.pc = "update", !.final = final, !.data = IdleLog.data,
               !.retries = SupabaseRetries]

\* the createLog call after one fetch call ended with the given code
AfterFetch(lg, code) ==
    IF code = 0 \/ Retryable(code)
    THEN IF lg.retries > 0
         THEN [lg EXCEPT !.retries = @ - 1]
         ELSE ToUpdate(lg, "FAILED")
    ELSE IF ResponseOk(code)
         THEN ToUpdate(lg, "SENT")
         ELSE ToUpdate(lg, "FAILED")

BodyOf(data) == [groupId |-> "g1", message |-> data.aiGeneratedMessage,
                 imageUrls |-> data.imageUrls]

\* a fetch call reaches the bot and its answer reaches the caller
FetchAnswered ==
    \E l \in LogIds :
        /\ ~exited
        /\ nEnq < MaxJobs
        /\ logs[l].pc = "fetch"
        /\ LET r == SendUpdate(DState, BodyOf(logs[l].data), l)
           IN  /\ SetD(r.D)
               /\ nEnq' = nEnq + r.pushed
               /\ served' = r.answer
               /\ logs' = [logs EXCEPT ![l] = AfterFetch(@, r.answer.code)]
        /\ UNCHANGED <<now, exited, fault, isReady, currentQR, watchdogAt,
                       probeDue, status, rows, cleanupAt, call>>

\* a fetch call reaches the bot, but its answer is lost on the way back
FetchAnswerLost ==
    \E l \in LogIds :
        /\ ~exited
        /\ nEnq < MaxJobs
        /\ logs[l].pc = "fetch"
        /\ LET r == SendUpdate(DState, BodyOf(logs[l].data), l)
           IN  /\ SetD(r.D)
               /\ nEnq' = nEnq + r.pushed
               /\ served' = r.answer
               /\ logs' = [logs EXCEPT ![l] = AfterFetch(@, 0)]
        /\ UNCHANGED <<now, exited, fault, isReady, currentQR, watchdogAt,
                       probeDue, status, rows, cleanupAt, call>>

\* a fetch call fails without reaching the bot
FetchFailed ==
    \E l \in LogIds :
        /\ logs[l].pc = "fetch"
        /\ logs' = [logs EXCEPT ![l] = AfterFetch(@, 0)]
        /\ UNCHANGED <<now, exited, fault, botVars, status, rows, call>>

\* the status write (part_001:292-297): a request that the database applied
CreateLogUpdate ==
    \E l \in LogIds :
        /\ logs[l].pc = "update"
        /\ status' = [status EXCEPT ![l] = logs[l].final]
        /\ logs' = [logs EXCEPT ![l].pc = "done", ![l].writes = @ + 1]
        /\ UNCHANGED <<now, exited, fault, botVars, rows, call>>

\* the codes of a request of the status write that was not applied: a
\* network error, a server error, a refusal
WriteErrors == {0, 503, 400}

\* a request of the status write that failed: supabaseFetch issues it again
\* while retries are left (part_001:84-97); the error that comes back in
\* the end is not looked at (part_001:293-296)
CreateLogUpdateFailed ==
    \E l \in LogIds, code \in WriteErrors :
        /\ logs[l].pc = "update"
        /\ logs' = [logs EXCEPT ![l] =
               IF (code = 0 \/ Retryable(code)) /\ @.retries > 0
               THEN [@ EXCEPT !.retries = @ - 1, !.writes = @ + 1]
               ELSE [@ EXCEPT !.pc = "done", !.writes = @ + 1]]
        /\ UNCHANGED <<now, exited, fault, botVars, status, rows, call>>

\* ---- LiveDB.retryLog (part_001:307-340) ----
\* the log resubmitted, as the dashboard reads it from the record
LogOf(l) == [category |-> "", aiGeneratedMessage |-> rows[l].ai_generated_message,
             imageUrls |-> rows[l].image_urls, hasGroup |-> TRUE]

\* the call retryLog(log) for a record whose createLog has ended, up to the
\* call of fetchWithRetry; final keeps the status the record had
RetryLogStart ==
    \E l \in LogIds, linked \in BOOLEAN :
        /\ logs[l].pc = "done"
        /\ logs' = [logs EXCEPT ![l] =
               IF linked
               THEN [pc |-> "retry_fetch", data |-> LogOf(l),
                     retries |-> RetryLogRetries, final |-> status[l],
                     writes |-> 0]
               ELSE [pc |-> "retry_thrown", data |-> IdleLog.data,
                     retries |-> 0, final |-> status[l], writes |-> 0]]
        /\ UNCHANGED <<now, exited, fault, botVars, status, rows, call>>

\* the retryLog call after one fetch call ended with the given code; the
\* bot's rejection is thrown (part_001:330)
RetryAfterFetchLenient(lg, code) ==
    IF code = 0 \/ Retryable(code)
    THEN IF lg.retries > 0
         THEN [lg EXCEPT !.retries = @ - 1]
         ELSE [lg EXCEPT !.pc = "retry_thrown", !.data = IdleLog.data]
    ELSE [lg EXCEPT !.pc = "retry_update", !.data = IdleLog.data,
                    !.retries = SupabaseRetries]

RetryAfterFetch(lg, code) ==
    IF code = 0 \/ Retryable(code)
    THEN IF lg.retries > 0
         THEN [lg EXCEPT !.retries = @ - 1]
         ELSE [lg EXCEPT !.pc = "retry_thrown", !.data = IdleLog.data]
    ELSE IF ResponseOk(code)
         THEN [lg EXCEPT !.pc = "retry_update", !.data = IdleLog.data,
                         !.retries = SupabaseRetries]
         ELSE [lg EXCEPT !.pc = "retry_thrown", !.data = IdleLog.data]

\* a fetch call of retryLog reaches the bot and its answer the caller
RetryAnswered ==
    \E l \in LogIds :
        /\ ~exited
        /\ nEnq < MaxJobs
        /\ logs[l].pc = "retry_fetch"
        /\ LET r == SendUpdate(DState, BodyOf(logs[l].data), l)
           IN  /\ SetD(r.D)
               /\ nEnq' = nEnq + r.pushed
               /\ served' = r.answer
               /\ logs' = [logs EXCEPT ![l] = RetryAfterFetch(@, r.answer.code)]
        /\ UNCHANGED <<now, exited, fault, isReady, currentQR, watchdogAt,
                       probeDue, status, rows, cleanupAt, call>>

\* a fetch call of retryLog reaches the bot, but its answer is lost on the
\* way back
RetryAnswerLost ==
    \E l \in LogIds :
        /\ ~exited
        /\ nEnq < MaxJobs
        /\ logs[l].pc = "retry_fetch"
        /\ LET r == SendUpdate(DState, BodyOf(logs[l].data), l)
           IN  /\ SetD(r.D)
               /\ nEnq' = nEnq + r.pushed
               /\ served' = r.answer
               /\ logs' = [logs EXCEPT ![l] = RetryAfterFetch(@, 0)]
        /\ UNCHANGED <<now, exited, fault, isReady, currentQR, watchdogAt,
                       probeDue, status, rows, cleanupAt, call>>

\* a fetch call of retryLog fails without reaching the bot
RetryFetchFailed ==
    \E l \in LogIds :
        /\ logs[l].pc = "retry_fetch"
        /\ logs' = [logs EXCEPT ![l] = RetryAfterFetch(@, 0)]
        /\ UNCHANGED <<now, exited, fault, botVars, status, rows, call>>

\* the status write of retryLog (part_001:332-335): a request that the
\* database applied
RetryLogUpdate ==
    \E l \in LogIds :
        /\ logs[l].pc = "retry_update"
        /\ status' = [status EXCEPT ![l] = "SENT"]
        /\ logs' = [logs EXCEPT ![l].pc = "retry_done", ![l].writes = @ + 1]
        /\ UNCHANGED <<now, exited, fault, botVars, rows, call>>

\* a request of that write that failed; the error that comes back in the
\* end is not looked at and nothing is thrown
RetryLogUpdateFailed ==
    \E l \in LogIds, code \in WriteErrors :
        /\ logs[l].pc = "retry_update"
        /\ logs' = [logs EXCEPT ![l] =
               IF (code = 0 \/ Retryable(code)) /\ @.retries > 0
               THEN [@ EXCEPT !.retries = @ - 1, !.writes = @ + 1]
               ELSE [@ EXCEPT !.pc = "retry_done", !.writes = @ + 1]]
        /\ UNCHANGED <<now, exited, fault, botVars, status, rows, call>>

\* ---- the bot and its callers ----
Next ==
    \/ OnQr \/ OnReady \/ OnAuthenticated \/ OnAuthFailure \/ OnDisconnected
    \/ PostSendUpdate
    \/ FromUrlOk \/ FromUrlFail
    \/ SendImageOk \/ SendImageRej \/ SendImageTimeout
    \/ DelayDone
    \/ SendTextOk \/ SendTextRej
    \/ CooldownFire
    \/ WatchdogTick \/ ProbeOk \/ ProbeFail \/ ProbeTimedOut
    \/ Advance

Spec == Init /\ [][Next]_vars

\* ---- the image cleanup (bot.js:312-335) ----
\* the rows the update selects: .lt('created_at', timeLimit)
Expired(l, timeLimit) ==
    status[l] # "NONE" /\ rows[l].created_at < timeLimit

\* the update: .update({ image_urls: [] })
RedactedWithNotes(row) == [row EXCEPT !.image_urls = <<>>, !.notes = ""]

Redacted(row) == [row EXCEPT !.image_urls = <<>>]

\* a pass whose update the database applied; the client is never null in a
\* process that has started (bot.js:255-293)
CleanupTick ==
    /\ ~exited
    /\ cleanupAt <= now
    /\ LET timeLimit == now - Retention
       IN  rows' = [l \in LogIds |->
                       IF Expired(l, timeLimit) THEN Redacted(rows[l]) ELSE rows[l]]
    /\ cleanupAt' = cleanupAt + CleanupInterval
    /\ served' = NoAnswer
    /\ UNCHANGED <<now, exited, fault, isReady, currentQR, jobQueue,
                   isProcessingQueue, lastJobStartTime, active, timers,
                   watchdogAt, probeDue, nEnq, jobLog, started, finished,
                   delivered, accepted, logs, status, call>>

\* a pass whose update failed (bot.js:327-334)
CleanupFailed ==
    /\ ~exited
    /\ cleanupAt <= now
    /\ cleanupAt' = cleanupAt + CleanupInterval
    /\ served' = NoAnswer
    /\ UNCHANGED <<now, exited, fault, isReady, currentQR, jobQueue,
                   isProcessingQueue, lastJobStartTime, active, timers,
                   watchdogAt, probeDue, nEnq, jobLog, started, finished,
                   delivered, accepted, logs, status, rows, call>>

\* the first watchdog deadline after the instant t
TickAfter(t) ==
    IF watchdogAt > t THEN watchdogAt
    ELSE watchdogAt + WatchdogInterval * ((t - watchdogAt) \div WatchdogInterval + 1)

\* the hour up to the next cleanup pass of a bot that waits for its
\* session with nothing to send: the watchdog ticks of that hour find no
\* job and issue no probe (bot.js:349, 359)
AdvanceToCleanup ==
    /\ ~exited
    /\ ~isReady
    /\ ~isProcessingQueue
    /\ active = {} /\ timers = <<>> /\ probeDue = 0
    /\ cleanupAt > now
    /\ cleanupAt <= Epoch + MaxHours * CleanupInterval
    /\ now' = cleanupAt
    /\ watchdogAt' = TickAfter(cleanupAt)
    /\ served' = NoAnswer
    /\ UNCHANGED <<exited, fault, isReady, currentQR, jobQueue,
                   isProcessingQueue, lastJobStartTime, active, timers,
                   probeDue, nEnq, jobLog, started, finished, delivered,
                   accepted, logs, status, rows, cleanupAt, call>>

\* ---- the records of the dashboard and the cleanup of the bot ----
NextClean ==
    \/ CreateLogInsert
    \/ FetchFailed
    \/ CreateLogUpdate \/ CreateLogUpdateFailed
    \/ CleanupTick \/ CleanupFailed
    \/ AdvanceToCleanup

SpecClean == Init /\ [][NextClean]_vars

\* ---- the bot with its timers run when due ----
NextLive ==
    \/ OnReady
    \/ PostSendUpdate
    \/ FromUrlOk \/ FromUrlFail
    \/ SendImageOk \/ SendImageRej \/ SendImageTimeout
    \/ DelayDone
    \/ SendTextOk \/ SendTextRej
    \/ CooldownFire
    \/ WatchdogTick \/ ProbeOk \/ ProbeFail \/ ProbeTimedOut
    \/ Advance

\* the event loop runs a timer callback that is due, and time passes
Fairness ==
    /\ WF_vars(CooldownFire)
    /\ WF_vars(DelayDone)
    /\ WF_vars(SendImageTimeout)
    /\ WF_vars(WatchdogTick)
    /\ WF_vars(ProbeTimedOut)
    /\ WF_vars(Advance)

SpecLive == Init /\ [][NextLive]_vars /\ Fairness

\* ---- one dispatcher and requests with several media items ----
AlbumBodies == [groupId : {"g1"},
                message : Messages,
                imageUrls : SeqsUpTo(ItemKinds, MaxItems)]

PostSendAlbum ==
    \E body \in AlbumBodies :
        /\ ~exited
        /\ nEnq < MaxAlbums
        /\ LET r == SendUpdate(DState, body, 0)
           IN  /\ SetD(r.D)
               /\ nEnq' = nEnq + r.pushed
               /\ served' = r.answer
        /\ UNCHANGED <<now, exited, fault, isReady, currentQR, watchdogAt,
                       probeDue, logs, status, rows, cleanupAt, call>>

\* the sends that timed out, by their position in jobLog, that the
\* transport has not delivered since
Abandoned ==
    {k \in 1..Len(jobLog) :
        /\ jobLog[k].ev = "timeout"
        /\ \A m \in (k + 1)..Len(jobLog) :
               ~(jobLog[m].ev = "late" /\ jobLog[m].item = jobLog[k].item)}

\* client.sendMessage(groupId, media) resolved after the 20s timer had
\* rejected the race: the call is not cancelled and nothing awaits it, the
\* message reaches the group all the same (bot.js:506-512)
SendImageLate ==
    /\ ~exited
    /\ \E k \in Abandoned :
        jobLog' = Append(jobLog, Ev("late", jobLog[k].job, jobLog[k].item, "-"))
    /\ served' = NoAnswer
    /\ UNCHANGED <<now, exited, fault, isReady, currentQR, jobQueue,
                   isProcessingQueue, lastJobStartTime, active, timers,
                   watchdogAt, probeDue, nEnq, started, finished, delivered,
                   accepted, logs, status, rows, cleanupAt, call>>

NextJob ==
    \/ OnReady
    \/ PostSendAlbum
    \/ FromUrlOk \/ FromUrlFail
    \/ SendImageOk \/ SendImageRej \/ SendImageTimeout \/ SendImageLate
    \/ DelayDone
    \/ SendTextOk \/ SendTextRej
    \/ CooldownFire
    \/ Advance

SpecJob == Init /\ [][NextJob]_vars

\* ---- POST /send-update with any JSON body ----
\* the values of a field of req.body: absent, a string, an array of urls,
\* or a number other than 0
Undefined == [t |-> "undefined", s |-> "", a |-> <<>>]
Str(x) == [t |-> "string", s |-> x, a |-> <<>>]
Arr(x) == [t |-> "array", s |-> "", a |-> x]
Num == [t |-> "number", s |-> "", a |-> <<>>]

RawBodies == [groupId : {Undefined, Str(""), Str("g1")},
              message : {Undefined, Num} \cup {Str(x) : x \in Messages \cup {" "}},
              imageUrls : {Undefined, Num}
                              \cup {Arr(x) : x \in SeqsUpTo(ItemKinds, MaxImages)}]

\* !v
Falsy(v) == v.t = "undefined" \/ (v.t = "string" /\ v.s = "")

\* v.length of a value that is no string; -1 stands for undefined, which
\* is equal to no number and greater than none
Length(v) == IF v.t = "array" THEN Len(v.a) ELSE 0 - 1

\* the job as processJob reads it: the text it finds (bot.js:486) and the
\* items its loop runs over (485, 490)
TextOf(v) == IF v.t = "string" THEN v.s ELSE ""
ItemsOf(v) == IF v.t = "array" THEN v.a ELSE <<>>

\* the handler (bot.js:590-616) on such a body; message.trim() throws for a
\* message that is a number, and express answers 500
SendUpdateRaw(D, body) ==
    IF NotConnected(isReady)
    THEN [D |-> D, pushed |-> 0,
          answer |-> [code |-> 503, body |-> [error |-> "WhatsApp not connected"]]]
    ELSE IF Falsy(body.groupId)
    THEN [D |-> D, pushed |-> 0,
          answer |-> [code |-> 400, body |-> [error |-> "Missing groupId"]]]
    ELSE IF ~Falsy(body.message) /\ body.message.t # "string"
    THEN [D |-> D, pushed |-> 0,
          answer |-> [code |-> 500, body |-> [error |-> "TypeError"]]]
    ELSE IF /\ (Falsy(body.message) \/ trim(body.message.s) = "")
            /\ (Falsy(body.imageUrls) \/ Length(body.imageUrls) = 0)
    THEN [D |-> D, pushed |-> 0,
          answer |-> [code |-> 400,
                      body |-> [error |-> "At least a message or an image is required"]]]
    ELSE LET job == [id |-> nEnq + 1, log |-> 0, groupId |-> body.groupId.s,
                     message |-> TextOf(body.message),
                     imageUrls |-> ItemsOf(body.imageUrls)]
             D1 == [D EXCEPT !.jobQueue = Push(@, job)]
             D2 == processQueue(D1)
         IN  [D |-> D2, pushed |-> 1,
              answer |-> [code |-> 200,
                          body |-> [success |-> TRUE, status |-> "queued"],
                          job |-> job.id,
                          before |-> Len(D.jobQueue),
                          logged |-> Len(D1.jobQueue),
                          sends |-> Cardinality(SendsOf(D2.jobLog, job.id))]]

PostSendRaw ==
    \E body \in RawBodies :
        /\ ~exited
        /\ nEnq < MaxJobs
        /\ LET r == SendUpdateRaw(DState, body)
           IN  /\ SetD(r.D)
               /\ nEnq' = nEnq + r.pushed
               /\ served' = r.answer
        /\ UNCHANGED <<now, exited, fault, isReady, currentQR, watchdogAt,
                       probeDue, logs, status, rows, cleanupAt, call>>

NextApi ==
    \/ OnQr \/ OnReady
    \/ PostSendRaw
    \/ FromUrlOk \/ FromUrlFail
    \/ SendImageOk \/ SendImageRej \/ SendImageTimeout
    \/ DelayDone
    \/ SendTextOk \/ SendTextRej
    \/ CooldownFire
    \/ Advance

SpecApi == Init /\ [][NextApi]_vars

\* ---- the records of the dashboard and their resubmission ----
NextRetry ==
    \/ OnQr \/ OnReady
    \/ CreateLogInsert
    \/ FetchFailed
    \/ CreateLogUpdate \/ CreateLogUpdateFailed
    \/ RetryLogStart
    \/ RetryAnswered \/ RetryAnswerLost \/ RetryFetchFailed
    \/ RetryLogUpdate \/ RetryLogUpdateFailed
    \/ FromUrlOk \/ FromUrlFail
    \/ SendImageOk \/ SendImageRej \/ SendImageTimeout
    \/ DelayDone
    \/ SendTextOk \/ SendTextRej
    \/ CooldownFire
    \/ Advance

SpecRetry == Init /\ [][NextRetry]_vars

\* ---- the session and its status endpoint ----
\* GET /status (bot.js:546-551)
GetStatus ==
    /\ ~exited
    /\ served' = [code |-> 200,
                  body |-> [status |-> IF isReady THEN "connected"
                                       ELSE "disconnected",
                            hasQR |-> currentQR # NoQR]]
    /\ UNCHANGED <<now, exited, fault, isReady, currentQR, jobQueue,
                   isProcessingQueue, lastJobStartTime, active, timers,
                   watchdogAt, probeDue, nEnq, jobLog, started, finished,
                   delivered, accepted, logs, status, rows, cleanupAt, call>>

NextSession ==
    \/ OnQr \/ OnReady \/ OnAuthenticated \/ OnAuthFailure \/ OnDisconnected
    \/ GetStatus
    \/ PostSendUpdate
    \/ FromUrlOk \/ FromUrlFail
    \/ SendImageOk \/ SendImageRej \/ SendImageTimeout
    \/ DelayDone
    \/ SendTextOk \/ SendTextRej
    \/ CooldownFire
    \/ Advance

SpecSession == Init /\ [][NextSession]_vars

\* ---- fetchWithRetry (part_001:71-94) ----
\* the statuses a call of fetch may bring
Codes == {200, 400, 408, 429, 500, 503}

\* the initial backoff at the call sites (part_001:71, 328; supabaseService.ts:308)
Backoffs == {500, 1000, 2000}

\* the call fetchWithRetry(url, options, retries, backoff), up to its call
\* of fetch; budget keeps the retries it was given, calls counts the calls
\* of fetch, last is the code the last of them ended with (0: it threw)
FetchWithRetryStart ==
    \E retries \in 0..MaxRetries, backoff \in Backoffs :
        /\ call.pc = "none"
        /\ call' = [pc |-> "fetch", budget |-> retries, retries |-> retries,
                    backoff |-> backoff, calls |-> 0, last |-> 0]
        /\ UNCHANGED <<now, exited, fault, botVars, logs, status, rows>>

\* the catch block (part_001:84-93)
CatchOnceMore(c, code) ==
    IF c.retries >= 0
    THEN [c EXCEPT !.pc = "backoff", !.last = code]
    ELSE [c EXCEPT !.pc = "thrown", !.last = code]

Catch(c, code) ==
    IF c.retries > 0
    THEN [c EXCEPT !.pc = "backoff", !.last = code]
    ELSE [c EXCEPT !.pc = "thrown", !.last = code]

\* fetch resolved with a response (part_001:76-83)
FetchResponds ==
    \E code \in Codes :
        /\ call.pc = "fetch"
        /\ LET c == [call EXCEPT !.calls = @ + 1]
           IN  call' = IF ~ResponseOk(code) /\ Retryable(code)
                       THEN Catch(c, code)
                       ELSE [c EXCEPT !.pc = "returned", !.last = code]
        /\ UNCHANGED <<now, exited, fault, botVars, logs, status, rows>>

\* fetch rejected: a network error
FetchThrows ==
    /\ call.pc = "fetch"
    /\ call' = Catch([call EXCEPT !.calls = @ + 1], 0)
    /\ UNCHANGED <<now, exited, fault, botVars, logs, status, rows>>

\* the backoff is over: the recursive call (part_001:86-89)
BackoffDone ==
    /\ call.pc = "backoff"
    /\ call' = [call EXCEPT !.pc = "fetch", !.retries = @ - 1,
                            !.backoff = @ * 2]
    /\ UNCHANGED <<now, exited, fault, botVars, logs, status, rows>>

NextFetch ==
    \/ FetchWithRetryStart
    \/ FetchResponds \/ FetchThrows
    \/ BackoffDone

SpecFetch == Init /\ [][NextFetch]_vars

\* ---- one long job under the watchdog ----
\* requests with many media items, each given inline
BatchBodies == [groupId : {"g1"},
                message : Messages,
                imageUrls : SeqsUpTo({"vid"}, MaxBatch)]

PostSendBatch ==
    \E body \in BatchBodies :
        /\ ~exited
        /\ nEnq < MaxAlbums
        /\ LET r == SendUpdate(DState, body, 0)
           IN  /\ SetD(r.D)
               /\ nEnq' = nEnq + r.pushed
               /\ served' = r.answer
        /\ UNCHANGED <<now, exited, fault, isReady, currentQR, watchdogAt,
                       probeDue, logs, status, rows, cleanupAt, call>>

NextBatch ==
    \/ OnReady
    \/ PostSendBatch
    \/ SendImageOk \/ SendImageRej \/ SendImageTimeout
    \/ DelayDone
    \/ SendTextOk \/ SendTextRej
    \/ CooldownFire
    \/ WatchdogTick \/ ProbeOk \/ ProbeFail \/ ProbeTimedOut
    \/ Advance

SpecBatch == Init /\ [][NextBatch]_vars

\* ---- the dashboard's createLog calls and the bot ----
NextLog ==
    \/ OnQr \/ OnReady
    \/ CreateLogInsert
    \/ FetchAnswered \/ FetchAnswerLost \/ FetchFailed
    \/ CreateLogUpdate \/ CreateLogUpdateFailed
    \/ FromUrlOk \/ FromUrlFail
    \/ SendImageOk \/ SendImageRej \/ SendImageTimeout
    \/ DelayDone
    \/ SendTextOk \/ SendTextRej
    \/ CooldownFire
    \/ Advance

SpecLog == Init /\ [][NextLog]_vars

\* ======================== the claims ========================

\* C1: jobs are dequeued, sent and finished in the order they were accepted,
\* each once: the jobs dequeued so far are the first accepted ones in order,
\* the jobs still queued are the remaining ones in order, a job is dequeued
\* only when every job before it has finished, and every send on record
\* since the last dequeue is a send of the job dequeued last.
FifoOrder ==
    /\ \A k \in 1..Len(started) : started[k] = k
    /\ \A k \in 1..Len(finished) : finished[k] = k
    /\ Len(finished) <= Len(started)
    /\ Len(started) <= Len(finished) + 1
    /\ \A k \in 1..Len(jobQueue) : jobQueue[k].id = Len(started) + k
    /\ \A k \in 1..Len(jobLog) :
           Len(started) > 0 /\ jobLog[k].job = started[Len(started)]

\* the second job is sending after the first has finished; the third waits
FifoOrderWitness ==
    /\ finished = <<1>>
    /\ started = <<1, 2>>
    /\ jobLog # <<>>
    /\ Len(jobQueue) >= 1

\* C2: at most one invocation of processJob is active at any instant, and
\* only while the flag is set.
OneJobAtATime ==
    /\ Cardinality(active) <= 1
    /\ active # {} => isProcessingQueue

\* a job is active while another waits and a cooldown timer is pending
OneJobAtATimeWitness ==
    /\ Cardinality(active) = 1
    /\ Len(jobQueue) >= 1
    /\ timers # <<>>

\* the failed sends of a media item
Failures == {"rej", "timeout"}

\* C3 (as claimed): once a send of a media item of a job has failed, no
\* other item of that job and no text is sent unless the failed item was
\* sent with success in between.
AbortAtFailedItem ==
    \A k \in 1..Len(jobLog) : \A m \in 1..Len(jobLog) :
        (/\ k < m
         /\ jobLog[k].ev \in Failures
         /\ jobLog[k].item >= 1
         /\ jobLog[m].ev = "send"
         /\ jobLog[m].item # jobLog[k].item)
        => \E n \in (k + 1)..(m - 1) :
               jobLog[n].ev = "ok" /\ jobLog[n].item = jobLog[k].item

\* C4 (as claimed): the record of a job is SENT only if every item and the
\* text of the job were sent with success, never while the job waits, is in
\* progress or has failed.
SentOnlyIfDelivered ==
    \A l \in LogIds :
        (l \in accepted /\ status[l] = "SENT") => l \in delivered

\* C5: while a job is in progress it is not older than the threshold plus
\* one watchdog interval, and the watchdog's exit for a stuck job comes
\* after the threshold was passed and at most one interval later.
StuckJobKilled ==
    /\ (~exited /\ isProcessingQueue)
           => now - lastJobStartTime <= StuckThreshold + WatchdogInterval
    /\ fault.kind = "stuck"
           => /\ fault.duration > StuckThreshold
              /\ fault.duration <= StuckThreshold + WatchdogInterval

\* the watchdog has ended the process, a full interval after the threshold
StuckJobKilledWitness ==
    /\ exited
    /\ fault.kind = "stuck"
    /\ fault.duration = StuckThreshold + WatchdogInterval

\* the job dequeued last has ended
LastJobEnded == Len(started) > 0 /\ Len(finished) = Len(started)

\* the positions in jobLog of the sends of item i
Attempts(i) == {k \in 1..Len(jobLog) : jobLog[k].ev = "send" /\ jobLog[k].item = i}

\* the items of the job dequeued last whose first send failed
FirstSendFailed ==
    {i \in 1..MaxImages :
        \E k \in Attempts(i) :
            /\ \A m \in Attempts(i) : k <= m
            /\ k < Len(jobLog)
            /\ jobLog[k + 1].ev \in Failures}

\* C6 (as claimed): when a job has ended, every item of it whose first
\* send, in native mode, failed was sent again as a fallback attachment,
\* and no send of an item in native mode follows one as an attachment.
FallbackAfterFailure ==
    /\ LastJobEnded =>
           \A i \in FirstSendFailed :
               \E k \in Attempts(i) : jobLog[k].mode = "fallbackAttachment"
    /\ \A i \in 1..MaxImages : \A k \in Attempts(i) : \A m \in Attempts(i) :
           (k < m /\ jobLog[k].mode = "fallbackAttachment")
               => jobLog[m].mode = "fallbackAttachment"

\* C7 (as claimed): when a job has ended, every item of it with a send that
\* timed out was sent with success later or was sent three times, and no
\* item was sent more than three times.
RetriedAfterTimeout ==
    /\ \A i \in 1..MaxImages : Cardinality(Attempts(i)) <= 3
    /\ LastJobEnded =>
           \A k \in 1..Len(jobLog) :
               (jobLog[k].ev = "timeout" /\ jobLog[k].item >= 1)
                   => \/ Cardinality(Attempts(jobLog[k].item)) = 3
                      \/ \E m \in (k + 1)..Len(jobLog) :
                             jobLog[m].ev = "ok" /\ jobLog[m].item = jobLog[k].item

\* C8: a request that finds the session not ready is answered 503 and leaves
\* the queue, the flag, the timestamp and the dispatcher alone.
RejectedWhenNotReady ==
    [][(PostSendUpdate /\ ~isReady)
           => /\ served'.code = 503
              /\ UNCHANGED <<jobQueue, isProcessingQueue, lastJobStartTime,
                             active, timers, nEnq, started>>]_vars

\* a request was rejected while a job was in progress and another waited
RejectedWhenNotReadyWitness ==
    /\ served.code = 503
    /\ ~isReady
    /\ isProcessingQueue
    /\ lastJobStartTime > 0
    /\ Len(jobQueue) >= 1

\* C9 (as claimed): the answer to an accepted request carries the queue
\* depth and is given before any send of that job is issued.
AckBeforeFirstSend ==
    served.code = 200
        => /\ served.sends = 0
           /\ "queueDepth" \in DOMAIN served.body

\* C10: the jobs queued are the jobs accepted less the jobs dequeued, each
\* once and in order, and the queue is one longer after the push of an
\* accepted request than before it.
DepthAccounting ==
    /\ Len(jobQueue) = nEnq - Len(started)
    /\ \A k \in 1..Len(jobQueue) : \A m \in 1..Len(jobQueue) :
           jobQueue[k].id = jobQueue[m].id => k = m
    /\ \A k \in 1..Len(jobQueue) : jobQueue[k].id \in 1..nEnq
    /\ served.code = 200 => served.logged = served.before + 1

\* a job was pushed onto a queue that held one, after one was dequeued
DepthAccountingWitness ==
    /\ served.code = 200
    /\ served.before = 1
    /\ Len(jobQueue) = 2
    /\ Len(started) = 1

\* C11 (as claimed): the job being sent is still held in the queue, and so
\* counted in its length, until its processJob has ended.
ActiveJobStillQueued ==
    \A inv \in active :
        \E k \in 1..Len(jobQueue) : jobQueue[k].id = inv.job.id

\* C12 (as claimed): a job with media items and a text sends the text as
\* the caption of its last item and not as a message of its own: no text
\* send is awaited for a job with media items, and the sends of such a job
\* on record are sends of its items, one for each.
CaptionNoSeparateText ==
    /\ \A inv \in active : inv.pc = "sendText" => ~hasImages(inv.job)
    /\ \A k \in 1..Len(jobLog) : \A m \in 1..Len(jobLog) :
           (jobLog[k].ev = "send" /\ jobLog[k].item >= 1)
               => ~(jobLog[m].ev = "send" /\ jobLog[m].item = 0)

\* a watchdog tick that has not ended the process
TickSurvived == ~exited' /\ watchdogAt' > watchdogAt

Definitive == {"rej", "nomedia"}

\* C14 (as claimed): once the transport has rejected the send of a media
\* item of a job, or the item could not be prepared, nothing more of that
\* job is sent: neither that item again, nor a later item, nor the text.
AbortOnRejection ==
    \A k \in 1..Len(jobLog) : \A m \in 1..Len(jobLog) :
        (k < m /\ jobLog[k].ev \in Definitive /\ jobLog[k].item >= 1)
            => jobLog[m].ev # "send"

\* the ends of the wait for a media item: sent, rejected, timed out, or no
\* media prepared
Outcomes == {"ok", "rej", "timeout", "nomedia"}

CooldownRespected ==
    \A k \in 1..Len(timers) : timers[k] > now => ~isProcessingQueue

\* C17: a cleanup pass changes a record only if the record is older than the
\* retention window, and then it empties image_urls and leaves the notes,
\* the message, the creation time and the status as they were; a pass that
\* changes a record leaves no record older than the window with images.
RedactionClearsMediaOnly ==
    [][\A l \in LogIds :
           /\ (status[l] # "NONE" /\ rows'[l] # rows[l])
                  => /\ rows[l].created_at < now - Retention
                     /\ rows'[l] = [rows[l] EXCEPT !.image_urls = <<>>]
                     /\ status' = status
           /\ (/\ \E k \in LogIds : status[k] # "NONE" /\ rows'[k] # rows[k]
               /\ status[l] # "NONE"
               /\ rows[l].created_at < now - Retention)
                  => rows'[l].image_urls = <<>>]_vars

\* a record that was stored with an image and whose send failed has lost
\* the image, 16 hours later, and kept the rest
RedactionClearsMediaOnlyWitness ==
    /\ status[1] = "FAILED"
    /\ rows[1].ai_generated_message = ""
    /\ rows[1].notes = "n"
    /\ rows[1].image_urls = <<>>
    /\ rows[1].created_at < now - Retention

\* a call of the transport that has no timer and was not answered at once
Hung ==
    \E inv \in active : inv.pc \in {"fromUrl", "sendText"} /\ inv.at < now

\* C18: as long as the process lives and no call of the transport hangs,
\* every job accepted is dequeued and its processJob ends; and an idle
\* dispatcher with a job in the queue has a wake-up pending.
EveryJobFinishes ==
    /\ \A j \in 1..MaxJobs :
           [](nEnq >= j => <>(Len(finished) >= j \/ exited \/ Hung))
    /\ []((~exited /\ ~isProcessingQueue /\ jobQueue # <<>>) => timers # <<>>)

\* the second and the third job, accepted while the first was being sent,
\* have been sent
EveryJobFinishesWitness ==
    /\ finished = <<1, 2, 3>>
    /\ ~exited
    /\ now >= Epoch + 2 * CooldownDelay

\* C19: the turn in which a job ends, whatever became of its sends, resets
\* the flag and the timestamp and schedules the next dequeue one settle
\* delay later; and a dispatcher that is not processing holds no job and no
\* timestamp.
ProcessingLeftOnCompletion ==
    [][/\ Len(finished') > Len(finished)
              => /\ ~isProcessingQueue'
                 /\ lastJobStartTime' = 0
                 /\ active' = {}
                 /\ timers' = Append(timers, now + CooldownDelay)
       /\ ~isProcessingQueue' => (lastJobStartTime' = 0 /\ active' = {})]_vars

\* a job whose image and text were both refused has ended, the dispatcher
\* is idle with the wake-up pending, and the job after it waits
ProcessingLeftOnCompletionWitness ==
    /\ finished = <<1>>
    /\ \E k \in 1..Len(jobLog) : jobLog[k].ev = "rej" /\ jobLog[k].item = 1
    /\ \E k \in 1..Len(jobLog) : jobLog[k].ev = "rej" /\ jobLog[k].item = 0
    /\ ~isProcessingQueue
    /\ lastJobStartTime = 0
    /\ timers # <<>>
    /\ Len(jobQueue) >= 1

\* C20 (as claimed): the send of the text of a job without media items is
\* awaited no longer than the timeout of a send, and when the job has ended
\* a text send that failed was followed by one that succeeded or the text
\* was sent three times.
TextSendDisciplined ==
    /\ \A inv \in active :
           (inv.pc = "sendText" /\ ~hasImages(inv.job))
               => now - inv.at <= ImageTimeout
    /\ LastJobEnded =>
           \A k \in 1..Len(jobLog) :
               (jobLog[k].ev \in Failures /\ jobLog[k].item = 0)
                   => \/ Cardinality(Attempts(0)) = 3
                      \/ \E m \in (k + 1)..Len(jobLog) :
                             jobLog[m].ev = "ok" /\ jobLog[m].item = 0

\* C21 (as claimed): the status write of a createLog call is not retried: at
\* most one request of it is issued for a record.
StatusWrittenOnce ==
    \A l \in LogIds : logs[l].writes <= 1

\* the sends the dispatcher awaits
Awaited == {inv \in active : inv.pc \in {"sendImage", "sendText"}}

\* C22 (as claimed): a send is issued only when no earlier send is still in
\* flight, one that timed out included: when a send that had timed out
\* resolves, and so was in flight until then, no other send is awaited.
SingleWriter ==
    [][(/\ Len(jobLog') = Len(jobLog) + 1
        /\ jobLog'[Len(jobLog')].ev = "late")
           => Awaited = {}]_vars

\* C23: in every state between two turns the flag is set exactly when the
\* timestamp is; the turn that dequeues a job sets the timestamp to the
\* time of that turn, and the timestamp stays as it is while that job is
\* in progress.
StampIffProcessing ==
    [][/\ isProcessingQueue <=> lastJobStartTime > 0
       /\ isProcessingQueue' <=> lastJobStartTime' > 0
       /\ (Len(started') > Len(started) /\ isProcessingQueue')
              => lastJobStartTime' = now
       /\ (isProcessingQueue /\ isProcessingQueue' /\ started' = started)
              => lastJobStartTime' = lastJobStartTime]_vars

\* the second job is in progress with the time of its own start, after the
\* first job took its time, and a watchdog tick has seen it
StampIffProcessingWitness ==
    /\ started = <<1, 2>>
    /\ isProcessingQueue
    /\ lastJobStartTime > Epoch
    /\ watchdogAt > Epoch + WatchdogInterval
    /\ now > lastJobStartTime

\* C24 (as claimed): the watchdog ends the process for a stuck job only when
\* a call of the transport did not settle within its time: a job whose
\* sends all succeed, fail or time out within their timeout is never found
\* stuck, however many media items it has.
HealthyJobNotKilled ==
    [][(fault'.kind = "stuck" /\ fault' # fault) => Hung]_vars

\* C25 (as claimed): the dispatcher calls client.sendMessage only while the
\* session is ready: a turn that issues a send, for a media item or for the
\* text, finds isReady set.
NoSendWhileNotReady ==
    [][(/\ jobLog' # jobLog
        /\ jobLog' # <<>>
        /\ jobLog'[Len(jobLog')].ev = "send")
           => isReady]_vars

\* C26 (as claimed): one createLog call has at most one job queued at the
\* bot: a job is queued for a record only if none was queued for it before.
OneJobPerSubmission ==
    [][\A l \in LogIds :
           (nEnq' > nEnq /\ logs'[l] # logs[l]) => l \notin accepted]_vars

\* C27 (as claimed): every job held in the queue has a groupId and a text
\* that is not blank or at least one media item.
QueuedJobsWellFormed ==
    \A k \in 1..Len(jobQueue) :
        /\ jobQueue[k].groupId # ""
        /\ ~Blank(jobQueue[k].message) \/ Len(jobQueue[k].imageUrls) > 0

\* the positions of a retryLog call
RetryPcs == {"retry_fetch", "retry_update", "retry_done", "retry_thrown"}

ReadyMeansNoQR ==
    /\ isReady => currentQR = NoQR
    /\ "hasQR" \in DOMAIN served.body
           => ~(served.body.status = "connected" /\ served.body.hasQR)

\* the status endpoint has answered connected without a QR challenge while
\* a job accepted under that session was in progress
ReadyMeansNoQRWitness ==
    /\ isReady
    /\ currentQR = NoQR
    /\ "hasQR" \in DOMAIN served.body
    /\ served.body.status = "connected"
    /\ ~served.body.hasQR
    /\ isProcessingQueue

\* a call of fetch that makes fetchWithRetry go on: it threw, or brought
\* 408, 429 or a status from 500
Failed(code) == code = 0 \/ Retryable(code)

\* C30: a call of fetchWithRetry makes at most retries + 1 calls of fetch;
\* it returns the first response that is no 408, 429 or 5xx and calls fetch
\* no more; it calls fetch again only after a call that threw or brought one
\* of those; and it throws, the error of its last call, exactly when all
\* the retries + 1 calls have failed; once it has returned or thrown it
\* does nothing more.
FetchWithRetryBounded ==
    [][/\ call'.calls <= call'.budget + 1
       /\ call'.calls >= call.calls
       /\ call'.calls <= call.calls + 1
       /\ call'.pc = "returned"
              => (~Failed(call'.last) /\ call'.last \in Codes)
       /\ call'.pc = "thrown"
              => (Failed(call'.last) /\ call'.calls = call'.budget + 1)
       /\ (call'.calls > call.calls /\ call.calls > 0) => Failed(call.last)
       /\ (call'.calls > call.calls /\ Failed(call'.last)
               /\ call'.calls = call'.budget + 1)
              => call'.pc = "thrown"
       /\ (call'.calls > call.calls /\ ~Failed(call'.last))
              => call'.pc = "returned"
       /\ call.pc \in {"returned", "thrown"} => call' = call]_vars

\* a call with three retries has thrown the 503 of its fourth call
FetchWithRetryBoundedWitness ==
    /\ call.pc = "thrown"
    /\ call.budget = 3
    /\ call.calls = 4
    /\ call.last = 503
    /\ call.backoff = 8000

====
